---- MODULE Spec2Model ----
(***************************************************************************)
(* PhycoBot (src/main.py): a Telegram bot that walks each user through the *)
(* polls of the `polls` table one at a time, stores every answer in the    *)
(* `answers` table and offers restart / statistics / reset buttons.        *)
(*                                                                         *)
(* One action per update handler.  The handlers run to completion one      *)
(* after the other (python-telegram-bot processes updates sequentially),   *)
(* so every handler is one atomic step.  A callback query carries the data *)
(* of a button its message has shown: the button it shows now, or one it   *)
(* showed when the user pressed and an earlier update has since replaced.  *)
(***************************************************************************)
EXTENDS Integers, Sequences, FiniteSets, Bags

\* ---------------------------------------------------------------- bounds
MaxPolls   == 2   \* rows the polls table can reach
MaxUpdates == 5   \* updates the bot receives

\* the chat users, by user id
Users   == {1, 2}
\* the option indexes of a poll (every poll here has two options)
Options == {0, 1}
\* PollAnswer.option_ids of a single-choice poll: the chosen option, or
\* nothing when the user retracts the vote
SingleSelect == { <<o>> : o \in Options }
OptionIds    == SingleSelect \cup { << >> }

\* ---------------------------------------------------------------- state
VARIABLES
    polls,            \* table polls: the ids of its rows
    answers,          \* table answers: a bag of rows (poll_id, user_id, option_index, run_id)
    user_data,        \* context.user_data of every user: a dict
    poll_id_mapping,  \* transport poll id -> [db_id, index]; ids are 1, 2, ... in issue order
    messages,         \* the keyboard messages the users still press: text,
                      \* reply_markup and the callback data of every button shown
    sent,             \* what the last handler sent through the bot
    update_id         \* number of updates received so far

vars == <<polls, answers, user_data, poll_id_mapping, messages, sent, update_id>>

\* transport poll ids an answer event can carry: the ids the transport has
\* issued (an update brings about one poll at most), and one it has not
TransportIds == 1 .. (MaxUpdates + 1)

\* message ids of the keyboard messages the users still press
MessageIds == {1}

\* ---------------------------------------------------------------- helpers
Max(S) == CHOOSE x \in S : \A y \in S : y <= x
Min(S) == CHOOSE x \in S : \A y \in S : x <= y

\* dict.get(key, default)
Get(d, key, default) == IF key \in DOMAIN d THEN d[key] ELSE default

\* d[key] = value
Put(d, key, value) ==
    [k \in (DOMAIN d) \cup {key} |-> IF k = key THEN value ELSE d[k]]

\* the empty dict
NoData == [k \in {} |-> 0]

\* one thing sent through the bot
Out(kind, text, markup, arg) ==
    [kind |-> kind, text |-> text, markup |-> markup, arg |-> arg]

\* ---------------------------------------------------------------- storage
RECURSIVE SortAsc(_)
SortAsc(S) == IF S = {} THEN << >> ELSE <<Min(S)>> \o SortAsc(S \ {Min(S)})

RECURSIVE SortDesc(_)
SortDesc(S) == IF S = {} THEN << >> ELSE <<Max(S)>> \o SortDesc(S \ {Max(S)})

\* a slip: ORDER BY id DESC
get_polls_desc(table) == SortDesc(table)

\* SELECT id, question, options FROM polls ORDER BY id
get_polls(table) == SortAsc(table)

\* INSERT INTO polls: AUTOINCREMENT gives the next id
add_poll(table) == table \cup { IF table = {} THEN 1 ELSE Max(table) + 1 }

Row(poll_id, user_id, option_index, run_id) ==
    [poll_id |-> poll_id, user_id |-> user_id,
     option_index |-> option_index, run_id |-> run_id]

\* a slip: run_id left to its default, 1
save_answer_default_run(table, poll_id, user_id, option_index, run_id) ==
    table (+) SetToBag({ Row(poll_id, user_id, option_index, 1) })

\* INSERT INTO answers (poll_id, user_id, option_index, run_id)
save_answer(table, poll_id, user_id, option_index, run_id) ==
    table (+) SetToBag({ Row(poll_id, user_id, option_index, run_id) })

\* a slip: COUNT(run_id) for COUNT(DISTINCT run_id)
get_user_runs_count_rows(table, user_id) ==
    BagCardinality([x \in { y \in BagToSet(table) : y.user_id = user_id } |-> table[x]]) + 1

\* SELECT COUNT(DISTINCT run_id) FROM answers WHERE user_id = ?   (+ 1)
get_user_runs(table, user_id) ==
    Cardinality({ r.run_id : r \in { x \in BagToSet(table) : x.user_id = user_id } }) + 1

\* a slip: COUNT(DISTINCT user_id) for COUNT(*)
get_poll_stats_distinct_users(table, poll_id) ==
    LET rows == { x \in BagToSet(table) : x.poll_id = poll_id }
        opts == { x.option_index : x \in rows }
    IN  [o \in opts |-> Cardinality({ x.user_id : x \in { y \in rows : y.option_index = o } })]

\* SELECT option_index, COUNT(*) FROM answers WHERE poll_id = ? GROUP BY option_index
get_poll_stats(table, poll_id) ==
    LET rows == { x \in BagToSet(table) : x.poll_id = poll_id }
        opts == { x.option_index : x \in rows }
        RECURSIVE Sum(_)
        Sum(S) == IF S = {} THEN 0
                  ELSE LET x == CHOOSE y \in S : TRUE
                       IN  CopiesIn(x, table) + Sum(S \ {x})
    IN  [o \in opts |-> Sum({ x \in rows : x.option_index = o })]

\* a slip: the DELETE is never committed
clear_all_answers_uncommitted(table) == table

\* DELETE FROM answers
clear_all_answers(table) == EmptyBag

\* ---------------------------------------------------------------- keyboards
keyboard_finish == <<"restart", "stats", "reset_ask_finish">>
keyboard_stats  == <<"restart", "reset_ask_stats">>
confirm_markup(no_callback) == <<"reset_yes", no_callback>>

Range(s) == { s[i] : i \in 1 .. Len(s) }

Message(text, markup) == [text |-> text, markup |-> markup, shown |-> Range(markup)]

\* a keyboard message enters the chat: the users press the buttons of the
\* latest keyboard message only, the older ones have scrolled away
Post(msgs, text, markup) == <<Message(text, markup)>>

\* ---------------------------------------------------------------- send_poll
\* what send_poll sends: the completion message past the end of the list,
\* the poll at poll_index otherwise
send_poll_out(poll_index, list) ==
    IF poll_index >= Len(list)
    THEN <<Out("send_message", "finished", keyboard_finish, 0)>>
    ELSE <<Out("send_poll", "question", << >>, list[poll_index + 1])>>

\* a slip: every poll is registered with index 0
send_poll_mapping_index_zero(mapping, poll_index, list) ==
    IF poll_index >= Len(list)
    THEN mapping
    ELSE Append(mapping, [db_id |-> list[poll_index + 1], index |-> 0])

\* poll_id_mapping after send_poll: the transport's fresh poll id is the next
\* one, registered with the poll's id and its index
send_poll_mapping(mapping, poll_index, list) ==
    IF poll_index >= Len(list)
    THEN mapping
    ELSE Append(mapping, [db_id |-> list[poll_index + 1], index |-> poll_index])

send_poll_messages(msgs, poll_index, list) ==
    IF poll_index >= Len(list)
    THEN Post(msgs, "finished", keyboard_finish)
    ELSE msgs

\* the application takes the next update off the transport (getUpdates)
Update ==
    /\ update_id < MaxUpdates
    /\ update_id' = update_id + 1

\* ---------------------------------------------------------------- Init
Init ==
    /\ polls = {}
    /\ answers = EmptyBag
    /\ user_data = [u \in Users |-> NoData]
    /\ poll_id_mapping = << >>
    /\ messages = << >>
    /\ sent = << >>
    /\ update_id = 0

\* ---------------------------------------------------------------- actions
\* the administrative seeding step
AddPoll ==
    /\ Cardinality(polls) < MaxPolls
    /\ polls' = add_poll(polls)
    /\ UNCHANGED <<answers, user_data, poll_id_mapping, messages, sent, update_id>>

\* a slip: the `if not polls` check is missing
Begin_unchecked(u, kind) ==
    LET list   == get_polls(polls)
        run_id == get_user_runs(answers, u)
    IN  /\ user_data' = [user_data EXCEPT ![u] =
               Put(Put(Put(@, "polls", list), "run_id", run_id),
                   "current_poll_index", 0)]
        /\ sent' = <<Out(kind, "begin", << >>, run_id)>> \o send_poll_out(0, list)
        /\ poll_id_mapping' = send_poll_mapping(poll_id_mapping, 0, list)
        /\ messages' = send_poll_messages(messages, 0, list)

\* the body start and restart_survey share; `kind` is how the two notices go
\* out: reply_text in start, send_message in restart_survey
Begin(u, kind) ==
    LET list   == get_polls(polls)
        run_id == get_user_runs(answers, u)
    IN  IF list = << >>
        THEN /\ sent' = <<Out(kind, "no_polls", << >>, 0)>>
             /\ UNCHANGED <<user_data, poll_id_mapping, messages>>
        ELSE /\ user_data' = [user_data EXCEPT ![u] =
                   Put(Put(Put(@, "polls", list), "run_id", run_id),
                       "current_poll_index", 0)]
             /\ sent' = <<Out(kind, "begin", << >>, run_id)>> \o send_poll_out(0, list)
             /\ poll_id_mapping' = send_poll_mapping(poll_id_mapping, 0, list)
             /\ messages' = send_poll_messages(messages, 0, list)

\* /start
start(u) ==
    /\ Update
    /\ Begin(u, "reply_text")
    /\ UNCHANGED <<polls, answers>>

\* a slip: an unknown transport poll id is reported to the user
handle_poll_answer_reports_unknown(u, real_poll_id, option_ids) ==
    /\ Update
    /\ real_poll_id <= Len(poll_id_mapping) + 1
    /\ IF real_poll_id \notin DOMAIN poll_id_mapping
       THEN /\ sent' = <<Out("send_message", "unknown_poll", << >>, 0)>>
            /\ UNCHANGED <<polls, answers, user_data, poll_id_mapping, messages>>
       ELSE LET poll_info  == poll_id_mapping[real_poll_id]
                db_id      == poll_info.db_id
                poll_index == poll_info.index
                run_id     == Get(user_data[u], "run_id", 1)
                list       == Get(user_data[u], "polls", << >>)
                next_index == poll_index + 1
                RECURSIVE SaveAll(_, _)
                SaveAll(table, ids) ==
                    IF ids = << >> THEN table
                    ELSE SaveAll(save_answer(table, db_id, u, Head(ids), run_id), Tail(ids))
            IN  /\ answers' = SaveAll(answers, option_ids)
                /\ user_data' = [user_data EXCEPT ![u] =
                       Put(@, "current_poll_index", next_index)]
                /\ sent' = send_poll_out(next_index, list)
                /\ poll_id_mapping' = send_poll_mapping(poll_id_mapping, next_index, list)
                /\ messages' = send_poll_messages(messages, next_index, list)
                /\ UNCHANGED polls

\* a poll-answer update: user u, transport poll id real_poll_id, option_ids
handle_poll_answer(u, real_poll_id, option_ids) ==
    /\ Update
    /\ real_poll_id <= Len(poll_id_mapping) + 1
    /\ IF real_poll_id \notin DOMAIN poll_id_mapping
       THEN /\ sent' = << >>
            /\ UNCHANGED <<polls, answers, user_data, poll_id_mapping, messages>>
       ELSE LET poll_info  == poll_id_mapping[real_poll_id]
                db_id      == poll_info.db_id
                poll_index == poll_info.index
                run_id     == Get(user_data[u], "run_id", 1)
                list       == Get(user_data[u], "polls", << >>)
                next_index == poll_index + 1
                RECURSIVE SaveAll(_, _)
                SaveAll(table, ids) ==
                    IF ids = << >> THEN table
                    ELSE SaveAll(save_answer(table, db_id, u, Head(ids), run_id), Tail(ids))
            IN  /\ answers' = SaveAll(answers, option_ids)
                /\ user_data' = [user_data EXCEPT ![u] =
                       Put(@, "current_poll_index", next_index)]
                /\ sent' = send_poll_out(next_index, list)
                /\ poll_id_mapping' = send_poll_mapping(poll_id_mapping, next_index, list)
                /\ messages' = send_poll_messages(messages, next_index, list)
                /\ UNCHANGED polls

\* a slip: /stats forgets the dispatched polls (poll_id_mapping.clear())
stats_command_clears_registry ==
    /\ Update
    /\ messages' = Post(messages, "stats", keyboard_stats)
    /\ sent' = <<Out("reply_text", "stats", keyboard_stats, 0)>>
    /\ poll_id_mapping' = << >>
    /\ UNCHANGED <<polls, answers, user_data>>

\* /stats
stats_command ==
    /\ Update
    /\ messages' = Post(messages, "stats", keyboard_stats)
    /\ sent' = <<Out("reply_text", "stats", keyboard_stats, 0)>>
    /\ UNCHANGED <<polls, answers, user_data, poll_id_mapping>>

\* the callback queries message m can bring: query.data is the callback data
\* of a button m has shown
CallbackQuery(m, data) ==
    /\ Update
    /\ m \in DOMAIN messages
    /\ data \in messages[m].shown

\* query.edit_message_text(text, reply_markup) on message m
Edit(m, text, markup) ==
    /\ messages' = [messages EXCEPT ![m] =
            [text |-> text, markup |-> markup, shown |-> @.shown \cup Range(markup)]]
    /\ sent' = <<Out("edit_message_text", text, markup, m)>>

\* button_handler, one branch per query.data; u is query.from_user, which
\* only the restart branch reads
ButtonRestart(u, m) ==
    /\ CallbackQuery(m, "restart")
    /\ Begin(u, "send_message")
    /\ UNCHANGED <<polls, answers>>

ButtonStats(m) ==
    /\ CallbackQuery(m, "stats")
    /\ Edit(m, "stats", keyboard_stats)
    /\ UNCHANGED <<polls, answers, user_data, poll_id_mapping>>

ButtonResetAsk(m, data) ==
    /\ CallbackQuery(m, data)
    /\ data \in {"reset_ask_finish", "reset_ask_stats"}
    /\ LET no_callback == IF data = "reset_ask_finish"
                          THEN "reset_no_finish" ELSE "reset_no_stats"
       IN  Edit(m, "confirm", confirm_markup(no_callback))
    /\ UNCHANGED <<polls, answers, user_data, poll_id_mapping>>

ButtonResetYes(u, m) ==
    /\ CallbackQuery(m, "reset_yes")
    /\ answers' = clear_all_answers(answers)
    /\ Edit(m, "reset", keyboard_finish)
    /\ UNCHANGED <<polls, user_data, poll_id_mapping>>

ButtonResetNoFinish(m) ==
    /\ CallbackQuery(m, "reset_no_finish")
    /\ Edit(m, "finished", keyboard_finish)
    /\ UNCHANGED <<polls, answers, user_data, poll_id_mapping>>

\* a slip: the reset_no_stats branch is a copy of the reset_no_finish branch
ButtonResetNoStats_to_finish(m) ==
    /\ CallbackQuery(m, "reset_no_stats")
    /\ Edit(m, "finished", keyboard_finish)
    /\ UNCHANGED <<polls, answers, user_data, poll_id_mapping>>

ButtonResetNoStats(m) ==
    /\ CallbackQuery(m, "reset_no_stats")
    /\ Edit(m, "stats", keyboard_stats)
    /\ UNCHANGED <<polls, answers, user_data, poll_id_mapping>>

button_handler(u, m) ==
    \/ ButtonRestart(u, m)
    \/ ButtonStats(m)
    \/ \E data \in {"reset_ask_finish", "reset_ask_stats"} : ButtonResetAsk(m, data)
    \/ ButtonResetYes(u, m)
    \/ ButtonResetNoFinish(m)
    \/ ButtonResetNoStats(m)

\* ---------------------------------------------------------------- specification
Next ==
    \/ AddPoll
    \/ \E u \in Users : start(u)
    \/ \E u \in Users, t \in TransportIds, ids \in OptionIds : handle_poll_answer(u, t, ids)
    \/ stats_command
    \/ \E u \in Users, m \in MessageIds : button_handler(u, m)

Spec == Init /\ [][Next]_vars

\* every answer event selects exactly one option
NextSingle ==
    \/ AddPoll
    \/ \E u \in Users : start(u)
    \/ \E u \in Users, t \in TransportIds, ids \in SingleSelect : handle_poll_answer(u, t, ids)
    \/ stats_command
    \/ \E u \in Users, m \in MessageIds : button_handler(u, m)

SpecSingle == Init /\ [][NextSingle]_vars

\* every answer event selects exactly one option and no reset is confirmed
NextNoReset ==
    \/ AddPoll
    \/ \E u \in Users : start(u)
    \/ \E u \in Users, t \in TransportIds, ids \in SingleSelect : handle_poll_answer(u, t, ids)
    \/ stats_command
    \/ \E u \in Users, m \in MessageIds :
          \/ ButtonRestart(u, m)
          \/ ButtonStats(m)
          \/ \E data \in {"reset_ask_finish", "reset_ask_stats"} : ButtonResetAsk(m, data)
          \/ ButtonResetNoFinish(m)
          \/ ButtonResetNoStats(m)

SpecNoReset == Init /\ [][NextNoReset]_vars

\* ---------------------------------------------------------------- vocabulary of the claims
\* the user has a session: start or restart_survey has filled user_data
HasSession(u) == {"polls", "run_id", "current_poll_index"} \subseteq DOMAIN user_data[u]

Registered(t) == t \in DOMAIN poll_id_mapping

\* number of rows of the table that lie in the set S
RECURSIVE CountRows(_, _)
CountRows(table, S) ==
    IF S = {} THEN 0
    ELSE LET x == CHOOSE y \in S : TRUE
         IN  CopiesIn(x, table) + CountRows(table, S \ {x})

RowsOfRun(table, u, run) ==
    { x \in BagToSet(table) : x.user_id = u /\ x.run_id = run }

RunsOf(table, u) == { x.run_id : x \in { y \in BagToSet(table) : y.user_id = u } }

CompletionMessage == Out("send_message", "finished", <<"restart", "stats", "reset_ask_finish">>, 0)

PollMessage(db_id) == Out("send_poll", "question", << >>, db_id)

\* ---------------------------------------------------------------- C1
\* C1: an answer event whose transport poll id resolves to a position that is
\* not the user's current session position appends no Answer and leaves the
\* session position unchanged.
C1_MismatchDropped ==
    [][\A u \in Users, t \in DOMAIN poll_id_mapping, ids \in OptionIds :
          ( /\ Registered(t)
            /\ HasSession(u)
            /\ poll_id_mapping[t].index # user_data[u].current_poll_index
            /\ handle_poll_answer(u, t, ids) )
          => ( /\ answers' = answers
               /\ user_data'[u].current_poll_index = user_data[u].current_poll_index )
      ]_vars

\* ---------------------------------------------------------------- C2
\* C2: with single-select answer events only, the answer store never holds
\* more than one Answer row for a (poll id, user id, run number) triple.
C2_OneAnswerPerPollUserRun ==
    \A x \in BagToSet(answers) :
        CountRows(answers, { y \in BagToSet(answers) :
            /\ y.poll_id = x.poll_id
            /\ y.user_id = x.user_id
            /\ y.run_id = x.run_id }) <= 1

\* ---------------------------------------------------------------- C3
\* C3 as stated: a restart with a non-empty poll list sets the run number to
\* 1 + the maximum run number on the user's stored Answers, which is also
\* 1 + the previous session run number, sets the position to 0 and dispatches
\* poll 0.  (Stated for the states in which every user has either never
\* started or holds a whole session.)
C3_RestartRunMaxPlusOne ==
    [][\A u \in Users, m \in MessageIds :
          ( /\ polls # {}
            /\ HasSession(u)
            /\ \A v \in Users : user_data[v] = NoData \/ HasSession(v)
            /\ ButtonRestart(u, m) )
          => ( /\ user_data'[u].run_id =
                     1 + (IF RunsOf(answers, u) = {} THEN 0 ELSE Max(RunsOf(answers, u)))
               /\ user_data'[u].run_id = 1 + user_data[u].run_id
               /\ user_data'[u].current_poll_index = 0
               /\ poll_id_mapping' =
                     Append(poll_id_mapping, [db_id |-> Min(polls), index |-> 0]) )
      ]_vars

\* C3 amended: a restart with a non-empty poll list, from any state, sets the
\* run number to 1 + the number of distinct run numbers on the user's stored
\* Answers, sets the position to 0 and dispatches and registers poll 0.
C3_RestartRunDistinctPlusOne ==
    [][\A u \in Users, m \in MessageIds :
          (polls # {} /\ ButtonRestart(u, m))
          => ( /\ user_data'[u].run_id = 1 + Cardinality(RunsOf(answers, u))
               /\ user_data'[u].current_poll_index = 0
               /\ poll_id_mapping' =
                     Append(poll_id_mapping, [db_id |-> Min(polls), index |-> 0])
               /\ sent' = << Out("send_message", "begin", << >>, user_data'[u].run_id),
                             PollMessage(Min(polls)) >> )
      ]_vars

\* a restart in the middle of run 1: the user answered poll 1, poll 2 went
\* out and is unanswered, and the restart notice of run 2 and poll 1 have
\* just gone out again; one Answer of run 1 is stored
C3_Witness ==
    \E u \in Users :
        /\ \A v \in Users \ {u} : user_data[v] = NoData
        /\ HasSession(u)
        /\ user_data[u].polls = <<1, 2>>
        /\ user_data[u].run_id = 2
        /\ user_data[u].current_poll_index = 0
        /\ poll_id_mapping = << [db_id |-> 1, index |-> 0],
                                [db_id |-> 2, index |-> 1],
                                [db_id |-> 1, index |-> 0] >>
        /\ CountRows(answers, RowsOfRun(answers, u, 1)) = 1
        /\ BagCardinality(answers) = 1
        /\ sent = << Out("send_message", "begin", << >>, 2), PollMessage(1) >>

\* ---------------------------------------------------------------- C4
\* C4: an answer event of a user who has no session, for a registered
\* transport poll id, appends no Answer, leaves the user without session
\* fields and sends nothing.
C4_NoSessionDropped ==
    [][\A u \in Users, t \in DOMAIN poll_id_mapping, ids \in OptionIds :
          ( /\ Registered(t)
            /\ user_data[u] = NoData
            /\ handle_poll_answer(u, t, ids) )
          => ( /\ answers' = answers
               /\ user_data'[u] = NoData
               /\ sent' = << >>
               /\ poll_id_mapping' = poll_id_mapping )
      ]_vars

\* ---------------------------------------------------------------- C5
\* C5: when a user in progress at position i answers the poll dispatched for
\* position i with one option, exactly that option is stored as one Answer
\* tagged with the session's run, the position becomes i + 1, and then poll
\* i + 1 of the session's list is dispatched and registered, or, at the end
\* of the list, the completion message with restart / statistics / reset is
\* sent and nothing is dispatched.
C5_AnswerAdvances ==
    [][\A u \in Users, t \in DOMAIN poll_id_mapping, o \in Options :
          ( /\ Registered(t)
            /\ HasSession(u)
            /\ user_data[u].current_poll_index < Len(user_data[u].polls)
            /\ poll_id_mapping[t].index = user_data[u].current_poll_index
            /\ poll_id_mapping[t].db_id =
                  user_data[u].polls[user_data[u].current_poll_index + 1]
            /\ handle_poll_answer(u, t, <<o>>) )
          => LET i    == user_data[u].current_poll_index
                 list == user_data[u].polls
             IN  /\ answers' = answers (+)
                       SetToBag({ Row(list[i + 1], u, o, user_data[u].run_id) })
                 /\ user_data'[u].current_poll_index = i + 1
                 /\ user_data'[u].polls = list
                 /\ user_data'[u].run_id = user_data[u].run_id
                 /\ IF i + 1 < Len(list)
                    THEN /\ poll_id_mapping' = Append(poll_id_mapping,
                                [db_id |-> list[i + 2], index |-> i + 1])
                         /\ sent' = <<PollMessage(list[i + 2])>>
                    ELSE /\ poll_id_mapping' = poll_id_mapping
                         /\ sent' = <<CompletionMessage>>
      ]_vars

\* a user has answered both polls of run 1 in order: one Answer per poll is
\* stored under run 1 and the completion message has just gone out
C5_Witness ==
    \E u \in Users :
        /\ HasSession(u)
        /\ Len(user_data[u].polls) = 2
        /\ user_data[u].current_poll_index = 2
        /\ user_data[u].run_id = 1
        /\ { x.poll_id : x \in RowsOfRun(answers, u, 1) } = {1, 2}
        /\ sent = <<CompletionMessage>>


\* ---------------------------------------------------------------- C6
\* C6: /start with a non-empty poll list, whatever the user's state, sets the
\* session position to 0, dispatches the poll with the lowest id and registers
\* the fresh transport poll id with that poll's id and position 0.
C6_StartDispatchesFirstPoll ==
    [][\A u \in Users :
          (polls # {} /\ start(u))
          => ( /\ user_data'[u].current_poll_index = 0
               /\ Len(sent') = 2
               /\ sent'[2] = PollMessage(Min(polls))
               /\ poll_id_mapping' =
                     Append(poll_id_mapping, [db_id |-> Min(polls), index |-> 0])
               /\ \A t \in DOMAIN poll_id_mapping :
                     poll_id_mapping'[t] = poll_id_mapping[t] )
      ]_vars

\* /start by a user who was past position 0 of an earlier run, with two polls
\* in the table: the notice of run 2 and poll 1 have just gone out
C6_Witness ==
    \E u \in Users :
        /\ polls = {1, 2}
        /\ HasSession(u)
        /\ user_data[u].current_poll_index = 0
        /\ user_data[u].run_id = 2
        /\ Len(poll_id_mapping) >= 2
        /\ poll_id_mapping[Len(poll_id_mapping)] = [db_id |-> 1, index |-> 0]
        /\ sent = << Out("reply_text", "begin", << >>, 2), PollMessage(1) >>

\* ---------------------------------------------------------------- C7
\* C7: with single-select answers and no confirmed reset, a user whose run has
\* reached the completion position has exactly as many stored Answers tagged
\* with that run as the run's poll list has polls.
C7_CompleteRunOneAnswerPerPoll ==
    \A u \in Users :
        (HasSession(u) /\ user_data[u].current_poll_index = Len(user_data[u].polls))
        => CountRows(answers, RowsOfRun(answers, u, user_data[u].run_id))
             = Len(user_data[u].polls)

\* ---------------------------------------------------------------- C8
\* C8: after a user confirms a reset that user has no session (Idle), so that
\* a later answer event of that user records and dispatches nothing.
C8_ResetLeavesConfirmerIdle ==
    [][\A u \in Users, m \in MessageIds :
          ButtonResetYes(u, m) => user_data'[u] = NoData
      ]_vars

\* ---------------------------------------------------------------- C9
\* C9: declining a reset leaves the stored Answers exactly as they were;
\* confirming it leaves the answer store empty, so that the tally of every
\* poll is empty.
C9_DeclineKeepsConfirmClears ==
    [][\A u \in Users, m \in MessageIds :
          /\ (ButtonResetNoFinish(m) \/ ButtonResetNoStats(m)) => answers' = answers
          /\ ButtonResetYes(u, m)
               => ( /\ BagToSet(answers') = {}
                    /\ \A p \in polls : DOMAIN get_poll_stats(answers', p) = {} )
      ]_vars

\* a reset has just been confirmed on the message of a user who finished a
\* run of one poll: the store is empty
C9_Witness ==
    \E m \in DOMAIN messages, u \in Users :
        /\ messages[m].text = "reset"
        /\ sent = <<Out("edit_message_text", "reset", keyboard_finish, m)>>
        /\ HasSession(u)
        /\ user_data[u].current_poll_index = Len(user_data[u].polls)
        /\ answers = EmptyBag
        /\ \A p \in polls : DOMAIN get_poll_stats(answers, p) = {}

\* ---------------------------------------------------------------- C10
\* C10: stored Answers are removed only by a confirm-yes press on a message
\* that is showing the confirmation prompt at that moment; no other event
\* removes an Answer.
C10_DeletionOnlyFromPrompt ==
    [][(\E x \in BagToSet(answers) : CopiesIn(x, answers') < CopiesIn(x, answers))
          => \E m \in DOMAIN messages :
                /\ messages[m].text = "confirm"
                /\ "reset_yes" \in Range(messages[m].markup)
                /\ sent' = <<Out("edit_message_text", "reset", keyboard_finish, m)>>
      ]_vars

\* ---------------------------------------------------------------- C11
\* where handle_poll_answer can raise once the transport poll id is resolved:
\* in save_answer (sqlite3 raises on the INSERT) or in send_poll (the Bot API
\* call raises)
FailurePoints == {"save_answer", "send_poll"}

\* a poll-answer update whose handler raises at `at`; the Application hands
\* the exception to error_handler, which prints it, and takes the next update
handle_poll_answer_raises(u, real_poll_id, option_ids, at) ==
    /\ Update
    /\ real_poll_id \in DOMAIN poll_id_mapping
    /\ sent' = << >>
    /\ IF at = "save_answer"
       THEN /\ option_ids # << >>
            /\ UNCHANGED <<polls, answers, user_data, poll_id_mapping, messages>>
       ELSE LET poll_info  == poll_id_mapping[real_poll_id]
                run_id     == Get(user_data[u], "run_id", 1)
                next_index == poll_info.index + 1
                RECURSIVE SaveAll(_, _)
                SaveAll(table, ids) ==
                    IF ids = << >> THEN table
                    ELSE SaveAll(save_answer(table, poll_info.db_id, u, Head(ids), run_id),
                                 Tail(ids))
            IN  /\ answers' = SaveAll(answers, option_ids)
                /\ user_data' = [user_data EXCEPT ![u] =
                       Put(@, "current_poll_index", next_index)]
                /\ UNCHANGED <<polls, poll_id_mapping, messages>>

\* the updates of Next, and poll-answer updates whose handling raises
NextFail ==
    \/ Next
    \/ \E u \in Users, t \in TransportIds, ids \in OptionIds, at \in FailurePoints :
          handle_poll_answer_raises(u, t, ids, at)

SpecFail == Init /\ [][NextFail]_vars

\* C11: when the handling of an answer event fails, in the answer append or
\* in the dispatch that follows it, the answer store and the session of the
\* user are exactly as they were before the event.
C11_FailureLeavesNoPartialMutation ==
    [][\A u \in Users, t \in DOMAIN poll_id_mapping, ids \in OptionIds, at \in FailurePoints :
          handle_poll_answer_raises(u, t, ids, at)
          => ( /\ answers' = answers
               /\ user_data'[u] = user_data[u] )
      ]_vars

\* ---------------------------------------------------------------- C12
\* C12: /start or a restart press while the polls table is empty sends the
\* user the "no polls" notice and nothing else: no poll is dispatched, the
\* registry gets no entry, and every user's session fields stay as they were.
C12_EmptyPollListNotice ==
    [][\A u \in Users, m \in MessageIds :
          /\ (polls = {} /\ start(u))
               => sent' = <<Out("reply_text", "no_polls", << >>, 0)>>
          /\ (polls = {} /\ ButtonRestart(u, m))
               => sent' = <<Out("send_message", "no_polls", << >>, 0)>>
          /\ (polls = {} /\ (start(u) \/ ButtonRestart(u, m)))
               => ( /\ user_data' = user_data
                    /\ poll_id_mapping' = poll_id_mapping
                    /\ messages' = messages
                    /\ answers' = answers )
      ]_vars

\* the restart button of a statistics message has just been pressed while the
\* polls table is empty: the notice went out, nobody has a session and the
\* registry is empty
C12_Witness ==
    /\ polls = {}
    /\ sent = <<Out("send_message", "no_polls", << >>, 0)>>
    /\ messages = <<Message("stats", keyboard_stats)>>
    /\ \A u \in Users : user_data[u] = NoData
    /\ poll_id_mapping = << >>

\* ---------------------------------------------------------------- C13
\* C13: in every reachable state the session position of every user who has
\* a session lies between 0 and the length of that session's poll list
\* snapshot, the length meaning finished.
C13_PositionWithinSnapshot ==
    \A u \in Users :
        HasSession(u)
        => ( /\ 0 <= user_data[u].current_poll_index
             /\ user_data[u].current_poll_index <= Len(user_data[u].polls) )

\* ---------------------------------------------------------------- C14
\* C14: the polls dispatched during one run are exactly the polls of the
\* snapshot taken when the run started, in snapshot order, whatever is added
\* to the polls table meanwhile.  Stated where one user only has ever been
\* active: the registry entries from the latest position-0 entry on are the
\* dispatches of that user's current run; they are the snapshot's polls, one
\* entry per position, in order, and all of them once the run is finished.
C14_RunDispatchesSnapshot ==
    \A u \in Users :
        (HasSession(u) /\ \A v \in Users \ {u} : user_data[v] = NoData)
        => LET list  == user_data[u].polls
               first == Max({ t \in DOMAIN poll_id_mapping : poll_id_mapping[t].index = 0 })
               run   == SubSeq(poll_id_mapping, first, Len(poll_id_mapping))
           IN  /\ Len(run) <= Len(list)
               /\ \A i \in 1 .. Min({Len(run), Len(list)}) :
                     run[i] = [db_id |-> list[i], index |-> i - 1]
               /\ user_data[u].current_poll_index = Len(list) => Len(run) = Len(list)

\* ---------------------------------------------------------------- C15
\* C15: in every reachable state and for every poll, the tally maps each
\* option index to the number of stored Answer rows with that poll id and
\* that option index, over all users and all runs, and has no entry for an
\* option without rows.
C15_TallyCountsAllRows ==
    \A p \in polls :
        LET tally == get_poll_stats(answers, p)
        IN  /\ DOMAIN tally \subseteq Options
            /\ \A o \in Options :
                  LET n == BagCardinality(
                             [x \in { y \in BagToSet(answers) :
                                         y.poll_id = p /\ y.option_index = o } |-> answers[x]])
                  IN  IF n = 0 THEN o \notin DOMAIN tally
                      ELSE o \in DOMAIN tally /\ tally[o] = n

\* poll 1 holds three Answers of one user, from runs 1 and 2: two of option 0
\* and one of option 1; poll 2 holds none
C15_Witness ==
    /\ polls = {1, 2}
    /\ get_poll_stats(answers, 1) = [o \in {0, 1} |-> IF o = 0 THEN 2 ELSE 1]
    /\ DOMAIN get_poll_stats(answers, 2) = {}
    /\ \E u \in Users :
          /\ \A x \in BagToSet(answers) : x.user_id = u
          /\ RunsOf(answers, u) = {1, 2}

\* ---------------------------------------------------------------- C16
\* C16: a poll-answer event whose transport poll id is not in the registry
\* changes nothing: no Answer is stored, no session changes, the registry is
\* as it was and nothing is sent.
C16_UnregisteredIdChangesNothing ==
    [][\A u \in Users, t \in TransportIds, ids \in OptionIds :
          (~Registered(t) /\ handle_poll_answer(u, t, ids))
          => ( /\ answers' = answers
               /\ user_data' = user_data
               /\ poll_id_mapping' = poll_id_mapping
               /\ messages' = messages
               /\ polls' = polls
               /\ sent' = << >> )
      ]_vars

\* an answer event with an unregistered transport poll id has just been
\* handled (nothing was sent) while a user is in the middle of a run with one
\* Answer stored and two polls registered
C16_Witness ==
    /\ sent = << >>
    /\ update_id = 3
    /\ Len(poll_id_mapping) = 2
    /\ BagCardinality(answers) = 1
    /\ \E u \in Users :
          /\ HasSession(u)
          /\ user_data[u].current_poll_index = 1
          /\ Len(user_data[u].polls) = 2

\* ---------------------------------------------------------------- C17
\* C17: viewing the statistics, by /stats or by the statistics button, from
\* any state, leaves every user's session (poll list, position, run number),
\* the answer store and the registry unchanged.
C17_StatsChangesNoState ==
    [][\A m \in MessageIds :
          (stats_command \/ ButtonStats(m))
          => ( /\ user_data' = user_data
               /\ answers' = answers
               /\ poll_id_mapping' = poll_id_mapping
               /\ polls' = polls )
      ]_vars

\* /stats has just been answered while a user is in the middle of a run of
\* two polls, with one Answer stored and two polls registered
C17_Witness ==
    /\ sent = <<Out("reply_text", "stats", keyboard_stats, 0)>>
    /\ messages = <<Message("stats", keyboard_stats)>>
    /\ Len(poll_id_mapping) = 2
    /\ BagCardinality(answers) = 1
    /\ \E u \in Users :
          /\ HasSession(u)
          /\ user_data[u].current_poll_index = 1
          /\ Len(user_data[u].polls) = 2

\* ---------------------------------------------------------------- C18
\* C18: a reset requested from the completion screen puts up a prompt whose
\* decline button leads back to the completion screen (restart, statistics,
\* reset), a reset requested from the statistics screen one whose decline
\* button leads back to the statistics screen; pressing the decline button of
\* the prompt on display returns the message to that screen, and declining
\* changes no session, no stored Answer and no registry entry.
C18_DeclineReturnsToOrigin ==
    [][\A m \in MessageIds :
          /\ \A data \in {"reset_ask_finish", "reset_ask_stats"} :
                ( /\ m \in DOMAIN messages
                  /\ data \in Range(messages[m].markup)
                  /\ ButtonResetAsk(m, data) )
                => ( /\ messages'[m].text = "confirm"
                     /\ messages'[m].markup =
                           IF messages[m].markup = keyboard_finish
                           THEN <<"reset_yes", "reset_no_finish">>
                           ELSE <<"reset_yes", "reset_no_stats">>
                     /\ messages[m].markup \in {keyboard_finish, keyboard_stats} )
          /\ ( /\ m \in DOMAIN messages
               /\ "reset_no_finish" \in Range(messages[m].markup)
               /\ ButtonResetNoFinish(m) )
             => ( /\ messages'[m].text = "finished"
                  /\ messages'[m].markup = <<"restart", "stats", "reset_ask_finish">> )
          /\ ( /\ m \in DOMAIN messages
               /\ "reset_no_stats" \in Range(messages[m].markup)
               /\ ButtonResetNoStats(m) )
             => ( /\ messages'[m].text = "stats"
                  /\ messages'[m].markup = <<"restart", "reset_ask_stats">> )
          /\ (ButtonResetNoFinish(m) \/ ButtonResetNoStats(m))
             => ( /\ user_data' = user_data
                  /\ answers' = answers
                  /\ poll_id_mapping' = poll_id_mapping )
      ]_vars

\* a reset requested from the statistics screen has just been declined: the
\* message shows the statistics screen again, and the Answer and the session
\* of the user who finished a run are still there
C18_Witness ==
    \E m \in DOMAIN messages :
        /\ messages[m].text = "stats"
        /\ messages[m].markup = keyboard_stats
        /\ "reset_no_stats" \in messages[m].shown
        /\ "reset_no_finish" \notin messages[m].shown
        /\ sent = <<Out("edit_message_text", "stats", keyboard_stats, m)>>
        /\ BagCardinality(answers) = 1
        /\ \E u \in Users :
              /\ HasSession(u)
              /\ user_data[u].current_poll_index = Len(user_data[u].polls)

\* ---------------------------------------------------------------- C19
\* The bot process started again.  init_db creates the tables only if they do
\* not exist, so the polls and answers tables hold what an earlier process
\* left, and the chat still shows that process's last keyboard message;
\* context.user_data and poll_id_mapping live in memory and start empty.
\* Here the earlier process ran one poll with one user to the end: poll 1, one
\* Answer of run 1, and the completion message in the chat (in Spec: AddPoll,
\* start, handle_poll_answer).
InitRestarted ==
    /\ polls = {1}
    /\ \E u \in Users, o \in Options : answers = SetToBag({ Row(1, u, o, 1) })
    /\ messages = <<Message("finished", keyboard_finish)>>
    /\ user_data = [u \in Users |-> NoData]
    /\ poll_id_mapping = << >>
    /\ sent = << >>
    /\ update_id = 0

SpecRestarted == InitRestarted /\ [][Next]_vars

\* C19: the run number start or restart assigns to a user never tags a
\* stored Answer of that user already.
C19_FreshRunNumber ==
    [][\A u \in Users, m \in MessageIds :
          (polls # {} /\ (start(u) \/ ButtonRestart(u, m)))
          => user_data'[u].run_id \notin RunsOf(answers, u)
      ]_vars

\* ---------------------------------------------------------------- C20
\* the session is in the middle of a run / past the last poll of its list
InProgress(u) ==
    HasSession(u) /\ user_data[u].current_poll_index < Len(user_data[u].polls)

Finished(u) ==
    HasSession(u) /\ user_data[u].current_poll_index = Len(user_data[u].polls)

\* the answers the runs in progress still wait for
RECURSIVE Outstanding(_)
Outstanding(S) ==
    IF S = {} THEN 0
    ELSE LET u == CHOOSE v \in S : TRUE
         IN  (IF InProgress(u)
              THEN Len(user_data[u].polls) - user_data[u].current_poll_index
              ELSE 0) + Outstanding(S \ {u})

\* the bound on the updates cuts no run short: an update that needs n updates
\* in all is taken up only if the outstanding answers fit in after it
Room(n) == update_id + n + Outstanding(Users) <= MaxUpdates

\* /start or a restart press of a user who is not in the middle of a run
StartRun(u) ==
    /\ ~InProgress(u)
    /\ Room(1 + Cardinality(polls))
    /\ (start(u) \/ \E m \in MessageIds : ButtonRestart(u, m))

\* the user answers, with one option, the poll the run is waiting at
AnswerDispatched(u) ==
    /\ InProgress(u)
    /\ \E t \in TransportIds, o \in Options :
          /\ Registered(t)
          /\ poll_id_mapping[t].db_id =
                user_data[u].polls[user_data[u].current_poll_index + 1]
          /\ handle_poll_answer(u, t, <<o>>)

\* /stats and the buttons other than restart
ViewStats  == Room(1) /\ (stats_command \/ \E m \in MessageIds : ButtonStats(m))

RequestReset ==
    /\ Room(1)
    /\ \E m \in MessageIds, data \in {"reset_ask_finish", "reset_ask_stats"} :
          ButtonResetAsk(m, data)

AnswerReset ==
    /\ Room(1)
    /\ \E u \in Users, m \in MessageIds :
          ButtonResetYes(u, m) \/ ButtonResetNoFinish(m) \/ ButtonResetNoStats(m)

\* users who answer every poll dispatched to them once and restart only
\* between runs
NextLive ==
    \/ AddPoll
    \/ \E u \in Users : StartRun(u)
    \/ \E u \in Users : AnswerDispatched(u)
    \/ ViewStats
    \/ RequestReset
    \/ AnswerReset

\* every answer the user gives reaches its handler: run_polling hands each
\* update to its handler, one after the other
SpecLive ==
    /\ Init
    /\ [][NextLive]_vars
    /\ \A u \in Users : WF_vars(AnswerDispatched(u))

\* C20: a run started over a non-empty poll list, whose dispatched polls are
\* each answered once and which is not restarted, reaches the finished
\* position with the completion message sent; and in every finished state
\* /start, restart, statistics and the reset request are enabled, as long as
\* the bound on the updates leaves an update to take.
C20_RunFinishesAndStaysLive ==
    /\ \A u \in Users :
          InProgress(u) ~> (Finished(u) /\ sent = <<CompletionMessage>>)
    /\ [](\A u \in Users :
            (Finished(u) /\ update_id < MaxUpdates)
            => ( /\ ENABLED start(u)
                 /\ ENABLED (\E m \in MessageIds : ButtonRestart(u, m))
                 /\ ENABLED stats_command
                 /\ ENABLED (\E m \in MessageIds,
                                data \in {"reset_ask_finish", "reset_ask_stats"} :
                                ButtonResetAsk(m, data)) ))

\* a user has answered both polls of a run and the completion message has
\* just gone out
C20_Witness ==
    \E u \in Users :
        /\ Finished(u)
        /\ user_data[u].polls = <<1, 2>>
        /\ CountRows(answers, RowsOfRun(answers, u, user_data[u].run_id)) = 2
        /\ sent = <<CompletionMessage>>

====
